---- MODULE Spec2Model ----
(***************************************************************************)
(* A model of the knative-serving-wasm runner (src/runner/src):            *)
(*   - the HTTP bridge, ServerState::handle_request, and the guest task it *)
(*     spawns (server.rs), as the specification Spec;                      *)
(*   - the network policy engine, NetworkChecker (network.rs), as the      *)
(*     specification SpecNet.                                              *)
(* Texts (patterns, quantities) are sequences of one-character strings, so *)
(* that splitting, trimming, parsing and formatting are computed.          *)
(***************************************************************************)
EXTENDS Integers, Sequences, FiniteSets, TLC

VARIABLES
    \* ---- process-wide state of the request bridge
    wasi_config,   \* ServerState.wasi_config: the configuration document
    engineFuel,    \* whether the engine was built with fuel consumption
    existing,      \* the host paths that exist now (the file system)
    sandbox,       \* the sandbox built last (server.rs:35-49): None or Some
    \* ---- per-request state, indexed by request
    hostPc,        \* position of handle_request: idle, recv, join, done,
                   \* cancelled, panicked
    store,         \* the per-request Store: none, alive, dropped
    fuel,          \* the fuel left in the store: None or Some(n)
    chan,          \* the oneshot rendezvous: none, open, ok, err, closed
    taskPc,        \* position of the guest task: none, instantiate, running, ended
    taskRes,       \* result of the guest task once ended
    join,          \* the JoinHandle `task`: none, held, awaited, detached
    outcomes,      \* what handle_request returned to the HTTP server, in order
    \* ---- the network policy engine
    network,       \* the NetworkSpec of the configuration: the five lists
    dns,           \* what the resolver answers now, per host name
    checker,       \* the NetworkChecker a sandbox was built with: None or Some
    builtDns,      \* the resolver's answers when `checker` was built
    lastCheck,     \* the last socket check: None or Some([addr, use, result])
    \* ---- the runner entrypoint (main.rs)
    environ,       \* the environment of the process: [IMAGE |-> None or Some]
    mainPc,        \* position of main: start, fetch, prepare, bind, accept,
                   \* exited
    imgname,       \* the image reference main fetches: None or Some
    conns          \* the connection tasks: none, serving, closed, failed

bridgeVars == <<wasi_config, engineFuel, existing, sandbox, hostPc, store, fuel, chan,
                taskPc, taskRes, join, outcomes>>

netVars == <<network, dns, checker, builtDns, lastCheck>>

mainVars == <<environ, mainPc, imgname, conns>>

vars == <<bridgeVars, netVars, mainVars>>

\* ------------------------------------------------------------------ bounds

\* Number of patterns a NetworkSpec holds, all five lists together.
MaxPatterns == 2

\* Number of requests the bridge serves, one after the other on a keep-alive
\* HTTP/1.1 connection (main.rs:55-57); their guest tasks may overlap.
MaxReq == 2

\* Number of connections the accept loop takes.
MaxConn == 3

Reqs == 1..MaxReq

\* ----------------------------------------------------------------- options

None == <<>>
Some(v) == <<v>>
IsSome(o) == o # <<>>
Unwrap(o) == o[1]

\* ------------------------------------------------------------------- texts

Digits == <<"0", "1", "2", "3", "4", "5", "6", "7", "8", "9">>

IsDigit(c) == \E i \in 1..10 : Digits[i] = c

DigitVal(c) == (CHOOSE i \in 1..10 : Digits[i] = c) - 1

RECURSIVE DecValue(_)
DecValue(s) ==
    IF s = <<>> THEN 0
    ELSE 10 * DecValue(SubSeq(s, 1, Len(s) - 1)) + DigitVal(s[Len(s)])

\* str::strip_suffix: the text before the suffix, or None.
strip_suffix(s, suf) ==
    IF Len(s) >= Len(suf) /\ SubSeq(s, Len(s) - Len(suf) + 1, Len(s)) = suf
    THEN Some(SubSeq(s, 1, Len(s) - Len(suf)))
    ELSE None

RECURSIVE StripZeros(_)
StripZeros(s) ==
    IF s # <<>> /\ s[1] = "0" THEN StripZeros(Tail(s)) ELSE s

\* The digits of an unsigned decimal text (an optional '+', then one digit or
\* more), leading zeros removed; None when the text is not of that form.
unsigned_digits(s) ==
    LET body == IF s # <<>> /\ s[1] = "+" THEN Tail(s) ELSE s
    IN  IF body = <<>> \/ \E i \in 1..Len(body) : ~IsDigit(body[i]) THEN None
        ELSE Some(StripZeros(body))

U16Max == 65535

\* str::parse::<u16>: None on a malformed text or on overflow.
parse_u16(s) ==
    LET d == unsigned_digits(s)
    IN  IF ~IsSome(d) THEN None
        ELSE IF Len(Unwrap(d)) > 5 \/ DecValue(Unwrap(d)) > U16Max THEN None
        ELSE Some(DecValue(Unwrap(d)))

\* ------------------------------------------------- addresses (std::net)

\* An IpAddr: its family and its groups (four octets, or eight 16-bit groups).
V4(a, b, c, d) == [v |-> 4, g |-> <<a, b, c, d>>]
V6(g) == [v |-> 6, g |-> g]

Lo4 == V4(127, 0, 0, 1)
Pub4 == V4(1, 1, 1, 1)
Lo6 == V6(<<0, 0, 0, 0, 0, 0, 0, 1>>)

\* The addresses and ports guests ask about.
IpAddrs == {Lo4, Pub4, Lo6}
Ports == {80, 81}

\* The first position of character c in s at or after i, 0 when there is none.
RECURSIVE find_from(_, _, _)
find_from(s, c, i) ==
    IF i > Len(s) THEN 0 ELSE IF s[i] = c THEN i ELSE find_from(s, c, i + 1)

\* The last position of character c in s at or before i, 0 when there is none.
RECURSIVE rfind_from(_, _, _)
rfind_from(s, c, i) ==
    IF i < 1 THEN 0 ELSE IF s[i] = c THEN i ELSE rfind_from(s, c, i - 1)

\* str::split on one character: the pieces, empty ones included.
RECURSIVE split(_, _)
split(s, c) ==
    LET i == find_from(s, c, 1)
    IN  IF i = 0 THEN <<s>>
        ELSE <<SubSeq(s, 1, i - 1)>> \o split(SubSeq(s, i + 1, Len(s)), c)

\* str::rsplit_once on one character: the texts before and after its last
\* occurrence, or None.
rsplit_once(s, c) ==
    LET i == rfind_from(s, c, Len(s))
    IN  IF i = 0 THEN None
        ELSE Some(<<SubSeq(s, 1, i - 1), SubSeq(s, i + 1, Len(s))>>)

\* str::trim_matches(|c| c == '[' || c == ']')
RECURSIVE trim_brackets(_)
trim_brackets(s) ==
    IF s # <<>> /\ s[1] \in {"[", "]"} THEN trim_brackets(Tail(s))
    ELSE IF s # <<>> /\ s[Len(s)] \in {"[", "]"}
    THEN trim_brackets(SubSeq(s, 1, Len(s) - 1))
    ELSE s

\* A decimal number as std's address parser reads it: digits only.
digits_only(s) == s # <<>> /\ \A i \in 1..Len(s) : IsDigit(s[i])

\* Ipv4Addr::from_str: four decimal octets, none written with a leading zero.
octet_ok(t) ==
    /\ digits_only(t) /\ Len(t) <= 3
    /\ (Len(t) > 1 => t[1] # "0")
    /\ DecValue(t) <= 255

parse_ipv4(s) ==
    LET parts == split(s, ".")
    IN  IF Len(parts) = 4 /\ \A i \in 1..4 : octet_ok(parts[i])
        THEN Some([v |-> 4, g |-> [i \in 1..4 |-> DecValue(parts[i])]])
        ELSE None

HexDigits == <<"0", "1", "2", "3", "4", "5", "6", "7", "8", "9",
               "a", "b", "c", "d", "e", "f">>

HexUpper == <<"0", "1", "2", "3", "4", "5", "6", "7", "8", "9",
              "A", "B", "C", "D", "E", "F">>

IsHex(c) == \E i \in 1..16 : HexDigits[i] = c \/ HexUpper[i] = c

HexVal(c) == (CHOOSE i \in 1..16 : HexDigits[i] = c \/ HexUpper[i] = c) - 1

RECURSIVE HexValue(_)
HexValue(s) ==
    IF s = <<>> THEN 0
    ELSE 16 * HexValue(SubSeq(s, 1, Len(s) - 1)) + HexVal(s[Len(s)])

group_ok(t) == t # <<>> /\ Len(t) <= 4 /\ \A i \in 1..Len(t) : IsHex(t[i])

groups_of(s) == IF s = <<>> THEN <<>> ELSE split(s, ":")

\* Ipv6Addr::from_str for the colon-hexadecimal forms: eight groups, or fewer
\* around one `::` (the forms with a dotted IPv4 tail are not among the texts
\* of this model).
parse_ipv6(s) ==
    LET gaps == {i \in 1..(Len(s) - 1) : s[i] = ":" /\ s[i + 1] = ":"}
    IN  IF gaps = {}
        THEN LET gs == groups_of(s)
             IN  IF Len(gs) = 8 /\ \A i \in 1..8 : group_ok(gs[i])
                 THEN Some([v |-> 6, g |-> [i \in 1..8 |-> HexValue(gs[i])]])
                 ELSE None
        ELSE LET i == CHOOSE k \in gaps : \A j \in gaps : k <= j
                 l == groups_of(SubSeq(s, 1, i - 1))
                 r == groups_of(SubSeq(s, i + 2, Len(s)))
             IN  IF /\ Len(l) + Len(r) <= 7
                    /\ \A k \in 1..Len(l) : group_ok(l[k])
                    /\ \A k \in 1..Len(r) : group_ok(r[k])
                 THEN Some([v |-> 6, g |->
                        [k \in 1..8 |->
                            IF k <= Len(l) THEN HexValue(l[k])
                            ELSE IF k > 8 - Len(r)
                            THEN HexValue(r[k - (8 - Len(r))])
                            ELSE 0]])
                 ELSE None

\* IpAddr::from_str: an IPv4 text, else an IPv6 text; brackets are no part of
\* either.
parse_ip_addr(s) ==
    IF IsSome(parse_ipv4(s)) THEN parse_ipv4(s) ELSE parse_ipv6(s)

\* Display of an unsigned number.
RECURSIVE fmt_dec(_)
fmt_dec(n) ==
    IF n < 10 THEN <<Digits[n + 1]>>
    ELSE fmt_dec(n \div 10) \o <<Digits[(n % 10) + 1]>>

RECURSIVE fmt_hex(_)
fmt_hex(n) ==
    IF n < 16 THEN <<HexDigits[n + 1]>>
    ELSE fmt_hex(n \div 16) \o <<HexDigits[(n % 16) + 1]>>

\* Groups joined by a separator.
RECURSIVE join_texts(_, _)
join_texts(ts, sep) ==
    IF ts = <<>> THEN <<>>
    ELSE IF Len(ts) = 1 THEN ts[1]
    ELSE ts[1] \o sep \o join_texts(Tail(ts), sep)

\* Display of Ipv4Addr.
fmt_ipv4(ip) == join_texts([i \in 1..4 |-> fmt_dec(ip.g[i])], <<".">>)

\* Length of the run of zero groups that starts at group i.
RECURSIVE zero_run(_, _)
zero_run(g, i) ==
    IF i > 8 \/ g[i] # 0 THEN 0 ELSE 1 + zero_run(g, i + 1)

\* Display of Ipv6Addr: lower-case groups, the first longest run of two or
\* more zero groups written `::` (an IPv4-mapped address ends dotted).
fmt_ipv6(ip) ==
    LET g == ip.g
        best == CHOOSE i \in 1..8 :
                    /\ \A j \in 1..8 : zero_run(g, j) <= zero_run(g, i)
                    /\ \A j \in 1..(i - 1) : zero_run(g, j) < zero_run(g, i)
        n == zero_run(g, best)
        hex(a, b) == join_texts([k \in 1..(b - a + 1) |-> fmt_hex(g[a + k - 1])],
                                <<":">>)
    IN  IF \A k \in 1..5 : g[k] = 0 /\ g[6] = 65535
        THEN <<":", ":", "f", "f", "f", "f", ":">>
             \o fmt_ipv4(V4(g[7] \div 256, g[7] % 256, g[8] \div 256, g[8] % 256))
        ELSE IF n >= 2
        THEN hex(1, best - 1) \o <<":", ":">> \o hex(best + n, 8)
        ELSE hex(1, 8)

\* SocketAddr::from_str: `ip4:port` or `[ip6]:port`, the port in digits.
parse_socket_addr(s) ==
    LET sp == rsplit_once(s, ":")
    IN  IF ~IsSome(sp) THEN None
        ELSE LET host == Unwrap(sp)[1]
                 port == Unwrap(sp)[2]
                 inner == SubSeq(host, 2, Len(host) - 1)
             IN  IF ~digits_only(port) \/ ~IsSome(parse_u16(port)) THEN None
                 ELSE IF IsSome(parse_ipv4(host))
                 THEN Some([ip |-> Unwrap(parse_ipv4(host)),
                            port |-> Unwrap(parse_u16(port))])
                 ELSE IF /\ Len(host) >= 2
                         /\ host[1] = "[" /\ host[Len(host)] = "]"
                         /\ IsSome(parse_ipv6(inner))
                 THEN Some([ip |-> Unwrap(parse_ipv6(inner)),
                            port |-> Unwrap(parse_u16(port))])
                 ELSE None

\* The names the resolver knows, and what a lookup can answer: the addresses
\* in order, <<>> for a failed lookup.
HostH == <<"h">>
HostNames == {HostH}
DnsAnswers == { <<>>, <<Lo4, Lo6>> }

\* <str as ToSocketAddrs>::to_socket_addrs: a socket address text as it is;
\* otherwise host and port are split at the last colon, the port must be a
\* u16 and the host is looked up. [ok, addrs]
to_socket_addrs(s, resolver) ==
    IF IsSome(parse_socket_addr(s))
    THEN [ok |-> TRUE, addrs |-> <<Unwrap(parse_socket_addr(s))>>]
    ELSE LET sp == rsplit_once(s, ":")
         IN  IF ~IsSome(sp) \/ ~IsSome(parse_u16(Unwrap(sp)[2]))
             THEN [ok |-> FALSE, addrs |-> <<>>]
             ELSE LET host == Unwrap(sp)[1]
                      port == Unwrap(parse_u16(Unwrap(sp)[2]))
                  IN  IF host \in DOMAIN resolver /\ resolver[host] # <<>>
                      THEN [ok |-> TRUE,
                            addrs |-> [i \in 1..Len(resolver[host]) |->
                                         [ip |-> resolver[host][i], port |-> port]]]
                      ELSE [ok |-> FALSE, addrs |-> <<>>]

\* ------------------------------------------- network policy (network.rs)

Uses == {"TcpBind", "TcpConnect", "UdpBind", "UdpConnect",
         "UdpOutgoingDatagram"}

\* The patterns configurations are written with.
PAnyAny == <<"*", ":", "*">>
PAny80 == <<"*", ":", "8", "0">>
PPub4Any == <<"1", ".", "1", ".", "1", ".", "1", ":", "*">>
PLo6At80 == <<"[", ":", ":", "1", "]", ":", "8", "0">>
PHostAt80 == <<"h", ":", "8", "0">>
PHostAny == <<"h", ":", "*">>
PNoColon == <<"b", "a", "d">>

Patterns == {PAnyAny, PAny80, PPub4Any, PLo6At80, PHostAt80, PHostAny,
             PNoColon}

EmptyNetwork ==
    [inherit |-> FALSE, allow_ip_name_lookup |-> TRUE, tcp_bind |-> <<>>, tcp_connect |-> <<>>, udp_bind |-> <<>>,
     udp_connect |-> <<>>, udp_outgoing |-> <<>>]

\* The list a use selects (network.rs:106-112).
list_for(lists, use) ==
    CASE use = "TcpBind" -> lists.tcp_bind
      [] use = "TcpConnect" -> lists.tcp_connect
      [] use = "UdpBind" -> lists.udp_bind
      [] use = "UdpConnect" -> lists.udp_connect
      [] use = "UdpOutgoingDatagram" -> lists.udp_outgoing

\* A NetworkSpec with pattern p appended to the list of a use.
with_pattern(net, use, p) ==
    CASE use = "TcpBind" -> [net EXCEPT !.tcp_bind = Append(@, p)]
      [] use = "TcpConnect" -> [net EXCEPT !.tcp_connect = Append(@, p)]
      [] use = "UdpBind" -> [net EXCEPT !.udp_bind = Append(@, p)]
      [] use = "UdpConnect" -> [net EXCEPT !.udp_connect = Append(@, p)]
      [] use = "UdpOutgoingDatagram" -> [net EXCEPT !.udp_outgoing = Append(@, p)]

\* The NetworkSpecs of at most n patterns.
RECURSIVE NetworkSpecs(_)
NetworkSpecs(n) ==
    IF n = 0 THEN {EmptyNetwork}
    ELSE LET smaller == NetworkSpecs(n - 1)
         IN  smaller \cup
             {with_pattern(net, use, p) : net \in smaller, use \in Uses,
                                          p \in Patterns}

\* network.rs:33-41: all_patterns, sorted and without repeats.
SeqRange(q) == {q[i] : i \in 1..Len(q)}

all_patterns(net) == UNION {SeqRange(list_for(net, use)) : use \in Uses}

\* network.rs:67-76: a resolved address written as a pattern, an IPv6 address
\* in brackets.
format_addr(addr) ==
    IF addr.ip.v = 6
    THEN <<"[">> \o fmt_ipv6(addr.ip) \o <<"]", ":">> \o fmt_dec(addr.port)
    ELSE fmt_ipv4(addr.ip) \o <<":">> \o fmt_dec(addr.port)

\* NetworkChecker::resolve_pattern: None for a pattern without a colon, with
\* the host `*` or a literal IP, and for a resolution that failed or gave no
\* address; otherwise the resolved addresses as patterns.
resolve_pattern(pattern, resolver) ==
    LET sp == rsplit_once(pattern, ":")
    IN  IF ~IsSome(sp) THEN None
        ELSE LET host_pat == Unwrap(sp)[1]
                 port_pat == Unwrap(sp)[2]
                 found == to_socket_addrs(host_pat \o <<":">> \o port_pat, resolver)
             IN  IF host_pat = <<"*">> \/ IsSome(parse_ip_addr(host_pat))
                 THEN None
                 ELSE IF found.ok /\ found.addrs # <<>>
                 THEN Some([i \in 1..Len(found.addrs) |->
                               format_addr(found.addrs[i])])
                 ELSE None

\* NetworkChecker::new: the five lists as declared, and the resolutions of
\* the patterns that resolved.
NetworkChecker_new(net, resolver) ==
    [tcp_bind |-> net.tcp_bind, tcp_connect |-> net.tcp_connect,
     udp_bind |-> net.udp_bind, udp_connect |-> net.udp_connect,
     udp_outgoing |-> net.udp_outgoing,
     resolved_patterns |->
        [p \in {q \in all_patterns(net) : IsSome(resolve_pattern(q, resolver))}
            |-> Unwrap(resolve_pattern(p, resolver))]]

\* network.rs:117-121: the resolutions of the entries of a list, in order.
RECURSIVE resolved_of(_, _)
resolved_of(originals, resolved) ==
    IF originals = <<>> THEN <<>>
    ELSE (IF Head(originals) \in DOMAIN resolved
          THEN resolved[Head(originals)] ELSE <<>>)
         \o resolved_of(Tail(originals), resolved)

\* A variant of get_patterns that reads the TCP-connect list for every use.
get_patterns_one_list(c, use) ==
    c.tcp_connect \o resolved_of(c.tcp_connect, c.resolved_patterns)

\* A variant of get_patterns that leaves the resolutions out.
get_patterns_unresolved(c, use) == list_for(c, use)

\* NetworkChecker::get_patterns
get_patterns(c, use) ==
    list_for(c, use) \o resolved_of(list_for(c, use), c.resolved_patterns)

\* A variant of pattern_matches that parses the host as it is written, the
\* brackets of an IPv6 literal included.
pattern_matches_no_trim(pattern, addr) ==
    LET sp == rsplit_once(pattern, ":")
    IN  IF ~IsSome(sp) THEN FALSE
        ELSE LET host_pat == Unwrap(sp)[1]
                 port_pat == Unwrap(sp)[2]
                 port_matches == \/ port_pat = <<"*">>
                                 \/ parse_u16(port_pat) = Some(addr.port)
                 ip == parse_ip_addr(host_pat)
             IN  IF ~port_matches THEN FALSE
                 ELSE IF host_pat = <<"*">> THEN TRUE
                 ELSE IF IsSome(ip) THEN addr.ip = Unwrap(ip)
                 ELSE FALSE

\* A variant of pattern_matches that does not look at the port.
pattern_matches_any_port(pattern, addr) ==
    LET sp == rsplit_once(pattern, ":")
    IN  IF ~IsSome(sp) THEN FALSE
        ELSE LET host_pat == Unwrap(sp)[1]
                 ip == parse_ip_addr(trim_brackets(host_pat))
             IN  IF host_pat = <<"*">> THEN TRUE
                 ELSE IF IsSome(ip) THEN addr.ip = Unwrap(ip)
                 ELSE FALSE

\* network.rs:137-178, the body of the loop of check: whether one pattern
\* matches the address.
pattern_matches(pattern, addr) ==
    LET sp == rsplit_once(pattern, ":")
    IN  IF ~IsSome(sp) THEN FALSE
        ELSE LET host_pat == Unwrap(sp)[1]
                 port_pat == Unwrap(sp)[2]
                 port_matches == \/ port_pat = <<"*">>
                                 \/ parse_u16(port_pat) = Some(addr.port)
                 ip == parse_ip_addr(trim_brackets(host_pat))
             IN  IF ~port_matches THEN FALSE
                 ELSE IF host_pat = <<"*">> THEN TRUE
                 ELSE IF IsSome(ip) THEN addr.ip = Unwrap(ip)
                 ELSE FALSE

\* Whether a pattern is neither a wildcard host nor an IP literal.
is_hostname_pattern(pattern) ==
    LET sp == rsplit_once(pattern, ":")
    IN  /\ IsSome(sp)
        /\ Unwrap(sp)[1] # <<"*">>
        /\ ~IsSome(parse_ip_addr(trim_brackets(Unwrap(sp)[1])))

\* A variant of the loop that denies at a pattern without a colon instead of
\* passing over it.
RECURSIVE check_patterns_deny_malformed(_, _)
check_patterns_deny_malformed(patterns, addr) ==
    IF patterns = <<>> THEN FALSE
    ELSE IF ~IsSome(rsplit_once(Head(patterns), ":")) THEN FALSE
    ELSE IF pattern_matches(Head(patterns), addr) THEN TRUE
    ELSE check_patterns_deny_malformed(Tail(patterns), addr)

\* A variant of the loop that denies at a host-name pattern instead of
\* passing over it.
RECURSIVE check_patterns_deny_hostname(_, _)
check_patterns_deny_hostname(patterns, addr) ==
    IF patterns = <<>> THEN FALSE
    ELSE IF pattern_matches(Head(patterns), addr) THEN TRUE
    ELSE IF is_hostname_pattern(Head(patterns)) THEN FALSE
    ELSE check_patterns_deny_hostname(Tail(patterns), addr)

\* network.rs:136-186, the loop of check: true at the first pattern that
\* matches, false when none does.
RECURSIVE check_patterns(_, _)
check_patterns(patterns, addr) ==
    IF patterns = <<>> THEN FALSE
    ELSE IF pattern_matches(Head(patterns), addr) THEN TRUE
    ELSE check_patterns(Tail(patterns), addr)

\* NetworkChecker::check
check(c, addr, use) == check_patterns(get_patterns(c, use), addr)

SocketAddrs == [ip : IpAddrs, port : Ports]

Resolvers == [HostNames -> DnsAnswers]

NetIdle ==
    /\ network = EmptyNetwork
    /\ dns = [h \in HostNames |-> <<>>]
    /\ checker = None
    /\ builtDns = None
    /\ lastCheck = None

NetInit ==
    /\ network \in NetworkSpecs(MaxPatterns)
    /\ dns \in Resolvers
    /\ checker = None
    /\ builtDns = None
    /\ lastCheck = None

\* network.rs:196-209 build_socket_addr_check, called by build_wasi_ctx
\* (server.rs:206) for the sandbox of a request: a new NetworkChecker is
\* made from the NetworkSpec, resolving its host names now.
BuildSocketAddrCheck ==
    /\ checker' = Some(NetworkChecker_new(network, dns))
    /\ builtDns' = Some(dns)
    /\ lastCheck' = None
    /\ UNCHANGED <<mainVars, bridgeVars, network, dns>>

\* network.rs:203-208: the closure, called for a socket operation of the
\* guest. The check reads the checker and changes nothing, so one query per
\* sandbox is followed.
SocketAddrCheck ==
    /\ IsSome(checker)
    /\ lastCheck = None
    /\ \E addr \in SocketAddrs, use \in Uses :
         lastCheck' = Some([addr |-> addr, use |-> use,
                            result |-> check(Unwrap(checker), addr, use)])
    /\ UNCHANGED <<mainVars, bridgeVars, network, dns, checker, builtDns>>

\* ------------------------------------------------- quantities (server.rs)

\* u64 and usize (a 64-bit target) are kept at their width: a number is the
\* sequence of its base-256 limbs, least significant first, without
\* leading zero limbs (zero is the empty sequence).
LimbBase == 256

RECURSIVE Normal(_)
Normal(x) ==
    IF x # <<>> /\ x[Len(x)] = 0 THEN Normal(SubSeq(x, 1, Len(x) - 1)) ELSE x

\* x * k + c without any bound (k, c small).
RECURSIVE MulAdd(_, _, _)
MulAdd(x, k, c) ==
    IF x = <<>>
    THEN IF c = 0 THEN <<>>
         ELSE <<c % LimbBase>> \o MulAdd(<<>>, k, c \div LimbBase)
    ELSE LET t == Head(x) * k + c
         IN  <<t % LimbBase>> \o MulAdd(Tail(x), k, t \div LimbBase)

big_mul(x, k) == Normal(MulAdd(x, k, 0))

\* x * k^i
RECURSIVE big_mul_pow(_, _, _)
big_mul_pow(x, k, i) ==
    IF i = 0 THEN x ELSE big_mul_pow(big_mul(x, k), k, i - 1)

\* floor(x / k) for a small k: [q |-> quotient limbs (not normal), r |-> rest]
RECURSIVE DivSmall(_, _)
DivSmall(x, k) ==
    IF x = <<>> THEN [q |-> <<>>, r |-> 0]
    ELSE LET hi == DivSmall(Tail(x), k)
             t == hi.r * LimbBase + Head(x)
         IN  [q |-> <<t \div k>> \o hi.q, r |-> t % k]

big_div(x, k) == Normal(DivSmall(x, k).q)

RECURSIVE big_div_pow(_, _, _)
big_div_pow(x, k, i) ==
    IF i = 0 THEN x ELSE big_div_pow(big_div(x, k), k, i - 1)

\* The value of a text of decimal digits.
RECURSIVE big_from_digits(_)
big_from_digits(s) ==
    IF s = <<>> THEN <<>>
    ELSE Normal(MulAdd(big_from_digits(SubSeq(s, 1, Len(s) - 1)), 10,
                       DigitVal(s[Len(s)])))

U64Limbs == 8

Fits64(x) == Len(x) <= U64Limbs

\* The low 64 bits: what a wrapping operation leaves.
Wrap64(x) == IF Fits64(x) THEN x ELSE Normal(SubSeq(x, 1, U64Limbs))

U64_MAX == [i \in 1..U64Limbs |-> LimbBase - 1]

\* A small number as a TLC integer (for the fuel counters of the bridge).
RECURSIVE big_to_int(_)
big_to_int(x) ==
    IF x = <<>> THEN 0 ELSE Head(x) + LimbBase * big_to_int(Tail(x))

\* `a * k * k ...` (i factors k) on u64/usize. With overflow checks (a debug
\* build) the multiplication that overflows panics; without them (a release
\* build) every product wraps modulo 2^64.
u64_mul_pow(a, k, i, overflow_checks) ==
    LET exact == big_mul_pow(a, k, i)
    IN  IF Fits64(exact) THEN [panic |-> FALSE, value |-> exact]
        ELSE IF overflow_checks THEN [panic |-> TRUE, value |-> <<>>]
        ELSE [panic |-> FALSE, value |-> Wrap64(exact)]

\* str::trim, of spaces
RECURSIVE trim(_)
trim(s) ==
    IF s # <<>> /\ Head(s) = " " THEN trim(Tail(s))
    ELSE IF s # <<>> /\ s[Len(s)] = " " THEN trim(SubSeq(s, 1, Len(s) - 1))
    ELSE s

\* str::parse::<u64> and ::<usize>: an optional `+`, decimal digits, and a
\* value below 2^64.
parse_u64(s) ==
    LET d == unsigned_digits(s)
    IN  IF ~IsSome(d) THEN None
        ELSE LET v == big_from_digits(Unwrap(d))
             IN  IF Fits64(v) THEN Some(v) ELSE None

\* str::parse::<f64> on the texts used here: an optional sign, then `nan`,
\* `inf`, or decimal digits with an optional fraction. A number is kept as
\* its digits and the count of fraction digits; the texts used have values a
\* double holds exactly.
parse_f64(s) ==
    LET neg == s # <<>> /\ Head(s) = "-"
        body == IF s # <<>> /\ Head(s) \in {"-", "+"} THEN Tail(s) ELSE s
        sp == split(body, ".")
    IN  IF body = <<"n", "a", "n">>
        THEN Some([kind |-> "nan", neg |-> neg, digits |-> <<>>, scale |-> 0])
        ELSE IF body = <<"i", "n", "f">>
        THEN Some([kind |-> "inf", neg |-> neg, digits |-> <<>>, scale |-> 0])
        ELSE IF digits_only(body)
        THEN Some([kind |-> "num", neg |-> neg, digits |-> body, scale |-> 0])
        ELSE IF /\ Len(sp) = 2
                /\ sp[1] \o sp[2] # <<>>
                /\ \A i \in 1..2 : sp[i] = <<>> \/ digits_only(sp[i])
        THEN Some([kind |-> "num", neg |-> neg, digits |-> sp[1] \o sp[2],
                   scale |-> Len(sp[2])])
        ELSE None

\* `(cores * 1000.0) as u64`: the cast truncates toward zero and saturates;
\* NaN and negative values give 0.
millicores_of(cores) ==
    IF cores.kind = "nan" THEN <<>>
    ELSE IF cores.neg THEN <<>>
    ELSE IF cores.kind = "inf" THEN U64_MAX
    ELSE LET v == big_div_pow(big_mul(big_from_digits(cores.digits), 1000),
                              10, cores.scale)
         IN  IF Fits64(v) THEN v ELSE U64_MAX

\* server.rs parse_cpu_quantity
parse_cpu_quantity(s) ==
    LET t == trim(s)
        num_str == strip_suffix(t, <<"m">>)
        cores == parse_f64(t)
    IN  IF IsSome(num_str) THEN parse_u64(Unwrap(num_str))
        ELSE IF IsSome(cores) THEN Some(millicores_of(Unwrap(cores)))
        ELSE None

\* The suffixes of parse_memory_quantity in the order they are tried, each
\* with its multiplier as `factor` taken `times` times (E is 1000^6 = 10^18).
MemSuffixes ==
    << [suffix |-> <<"E", "i">>, factor |-> 1024, times |-> 6],
       [suffix |-> <<"P", "i">>, factor |-> 1024, times |-> 5],
       [suffix |-> <<"T", "i">>, factor |-> 1024, times |-> 4],
       [suffix |-> <<"G", "i">>, factor |-> 1024, times |-> 3],
       [suffix |-> <<"M", "i">>, factor |-> 1024, times |-> 2],
       [suffix |-> <<"K", "i">>, factor |-> 1024, times |-> 1],
       [suffix |-> <<"E">>, factor |-> 1000, times |-> 6],
       [suffix |-> <<"P">>, factor |-> 1000, times |-> 5],
       [suffix |-> <<"T">>, factor |-> 1000, times |-> 4],
       [suffix |-> <<"G">>, factor |-> 1000, times |-> 3],
       [suffix |-> <<"M">>, factor |-> 1000, times |-> 2],
       [suffix |-> <<"k">>, factor |-> 1000, times |-> 1] >>

\* The result of a computation that may panic: the value is an Option.
Value(v) == [panic |-> FALSE, value |-> v]
Panic == [panic |-> TRUE, value |-> None]

\* server.rs parse_memory_quantity, the chain of strip_suffix tests
RECURSIVE parse_suffixed(_, _, _)
parse_suffixed(s, table, overflow_checks) ==
    IF table = <<>> THEN Value(parse_u64(s))
    ELSE LET num_str == strip_suffix(s, Head(table).suffix)
         IN  IF ~IsSome(num_str)
             THEN parse_suffixed(s, Tail(table), overflow_checks)
             ELSE LET n == parse_u64(Unwrap(num_str))
                  IN  IF ~IsSome(n) THEN Value(None)
                      ELSE LET p == u64_mul_pow(Unwrap(n), Head(table).factor,
                                                Head(table).times,
                                                overflow_checks)
                           IN  IF p.panic THEN Panic ELSE Value(Some(p.value))

parse_memory_quantity(s, overflow_checks) ==
    parse_suffixed(trim(s), MemSuffixes, overflow_checks)

\* config.rs ResourceRequirements: `limits` and `requests` map the keys
\* "memory" and "cpu" to texts; a key that is absent is None.
NoResources == [memory |-> None, cpu |-> None]

\* A variant of the cpu accessor that looks at `requests` first.
get_cpu_requests_first(resources) ==
    IF IsSome(resources.requests.cpu) THEN resources.requests.cpu
    ELSE resources.limits.cpu

\* config.rs ResourceRequirements::get_memory
get_memory(resources) ==
    IF IsSome(resources.limits.memory) THEN resources.limits.memory
    ELSE resources.requests.memory

\* config.rs ResourceRequirements::get_cpu
get_cpu(resources) ==
    IF IsSome(resources.limits.cpu) THEN resources.limits.cpu
    ELSE resources.requests.cpu

\* server.rs build_store_limits: the memory ceiling of the store, if any
build_store_limits(config, overflow_checks) ==
    LET memory_str == get_memory(config.resources)
    IN  IF ~IsSome(memory_str) THEN Value(None)
        ELSE parse_memory_quantity(Unwrap(memory_str), overflow_checks)

FuelPerMillicore == 1000000

\* server.rs get_fuel_limit
get_fuel_limit(config, overflow_checks) ==
    LET cpu_str == get_cpu(config.resources)
        millicores == IF IsSome(cpu_str) THEN parse_cpu_quantity(Unwrap(cpu_str))
                      ELSE None
    IN  IF ~IsSome(millicores) THEN Value(None)
        ELSE LET p == u64_mul_pow(Unwrap(millicores), FuelPerMillicore, 1,
                                  overflow_checks)
             IN  IF p.panic THEN Panic ELSE Value(Some(p.value))

\* ------------------------------------------------ sandbox build (server.rs)

\* Volume mounts of the configuration; paths are sequences of components,
\* sub_path <<>> being the empty string.
DataMount ==
    [name |-> "data", mount_path |-> <<"data">>, sub_path |-> <<"sub">>,
     read_only |-> TRUE]

LogsMount ==
    [name |-> "logs", mount_path |-> <<"logs">>, sub_path |-> <<>>,
     read_only |-> FALSE]

MountLists == { <<>>, <<DataMount>>, <<LogsMount>>, <<LogsMount, DataMount>> }

\* server.rs build_wasi_ctx, the host path of a mount
host_path(mount) ==
    IF mount.sub_path = <<>> THEN mount.mount_path
    ELSE mount.mount_path \o mount.sub_path

\* The host paths the mounts of a list name.
HostPaths(mounts) == { host_path(mounts[i]) : i \in 1..Len(mounts) }

\* Path::display
display(path) ==
    CASE path = <<"data">> -> "data"
      [] path = <<"data", "sub">> -> "data/sub"
      [] path = <<"logs">> -> "logs"

\* wasmtime_wasi DirPerms and FilePerms as sets of flags.
DirPerms_READ == {"READ"}
DirPerms_all == {"READ", "MUTATE"}
FilePerms_READ == {"READ"}
FilePerms_all == {"READ", "WRITE"}

\* server.rs:183-187, the error of a missing host path: the text of the
\* message, then the mount name and the path it is formatted with.
missing_path_error(mount) ==
    <<"Volume mount path does not exist", mount.name,
      display(host_path(mount))>>

\* A variant of the preopen loop that grants every mount all permissions.
RECURSIVE preopen_mounts_all_perms(_, _)
preopen_mounts_all_perms(mounts, exists) ==
    IF mounts = <<>> THEN [ok |-> TRUE, err |-> <<>>, preopens |-> <<>>]
    ELSE IF host_path(Head(mounts)) \notin exists
         THEN [ok |-> FALSE, err |-> missing_path_error(Head(mounts)),
               preopens |-> <<>>]
         ELSE LET rest == preopen_mounts_all_perms(Tail(mounts), exists)
                  dir == [host_path |-> host_path(Head(mounts)),
                          guest_path |-> Head(mounts).mount_path,
                          dir_perms |-> DirPerms_all,
                          file_perms |-> FilePerms_all]
              IN  [rest EXCEPT !.preopens = <<dir>> \o @]

\* A variant of the preopen loop without the test that the host path exists.
RECURSIVE preopen_mounts_unchecked(_, _)
preopen_mounts_unchecked(mounts, exists) ==
    IF mounts = <<>> THEN [ok |-> TRUE, err |-> <<>>, preopens |-> <<>>]
    ELSE LET rest == preopen_mounts_unchecked(Tail(mounts), exists)
             dir == [host_path |-> host_path(Head(mounts)),
                     guest_path |-> Head(mounts).mount_path,
                     dir_perms |-> IF Head(mounts).read_only
                                   THEN DirPerms_READ ELSE DirPerms_all,
                     file_perms |-> IF Head(mounts).read_only
                                    THEN FilePerms_READ ELSE FilePerms_all]
         IN  [rest EXCEPT !.preopens = <<dir>> \o @]

\* server.rs:162-190 build_wasi_ctx, the preopen loop: the first mount whose
\* host path does not exist fails the build; every other mount is preopened
\* under its mount_path with READ or all permissions.
RECURSIVE preopen_mounts(_, _)
preopen_mounts(mounts, exists) ==
    IF mounts = <<>> THEN [ok |-> TRUE, err |-> <<>>, preopens |-> <<>>]
    ELSE IF host_path(Head(mounts)) \notin exists
         THEN [ok |-> FALSE, err |-> missing_path_error(Head(mounts)),
               preopens |-> <<>>]
         ELSE LET rest == preopen_mounts(Tail(mounts), exists)
                  dir == [host_path |-> host_path(Head(mounts)),
                          guest_path |-> Head(mounts).mount_path,
                          dir_perms |-> IF Head(mounts).read_only
                                        THEN DirPerms_READ ELSE DirPerms_all,
                          file_perms |-> IF Head(mounts).read_only
                                         THEN FilePerms_READ ELSE FilePerms_all]
              IN  [rest EXCEPT !.preopens = <<dir>> \o @]

\* server.rs:199-203
has_any_permission(net) == \E use \in Uses : list_for(net, use) # <<>>

\* A variant of the network configuration that installs no check, and so
\* allows every address, when the configuration names no network.
socket_addr_check_of_absent_allows(config) ==
    IF ~IsSome(config.network) THEN "allow"
    ELSE IF Unwrap(config.network).inherit THEN "allow"
    ELSE IF has_any_permission(Unwrap(config.network)) THEN "check"
    ELSE "deny"

\* server.rs:193-209: the socket-address check of the context. A
\* WasiCtxBuilder starts with a check that denies every address ("deny");
\* inherit_network replaces it by one that allows every address ("allow");
\* socket_addr_check installs the closure of build_socket_addr_check
\* ("check").
socket_addr_check_of(config) ==
    IF ~IsSome(config.network) THEN "deny"
    ELSE IF Unwrap(config.network).inherit THEN "allow"
    ELSE IF has_any_permission(Unwrap(config.network)) THEN "check"
    ELSE "deny"

\* server.rs:145-216 build_wasi_ctx
build_wasi_ctx(config, exists) ==
    LET dirs == preopen_mounts(config.volume_mounts, exists)
    IN  [ok |-> dirs.ok, err |-> dirs.err, preopens |-> dirs.preopens,
         socket_addr_check |-> IF dirs.ok THEN socket_addr_check_of(config)
                               ELSE "deny",
         allow_ip_name_lookup |->
             /\ dirs.ok
             /\ IsSome(config.network)
             /\ Unwrap(config.network).allow_ip_name_lookup]

\* The sandbox handle_request makes for a request (server.rs:35-49): the
\* store limits, the WASI context, the fuel. `status` tells how far it got:
\* "built", "error" (an Err returned) or "panic" (an arithmetic overflow
\* under overflow checks); `store_made` whether Store::new was reached.
FailedSandbox(status, err, store_made) ==
    [status |-> status, err |-> err, store_made |-> store_made,
     preopens |-> <<>>,
     socket_addr_check |-> "deny", allow_ip_name_lookup |-> FALSE,
     memory_size |-> None, fuel |-> None]

OverflowPanic == <<"attempt to multiply with overflow">>

build_sandbox(config, exists, engine_fuel, overflow_checks) ==
    LET limits == build_store_limits(config, overflow_checks)
        ctx == build_wasi_ctx(config, exists)
        fuel_limit == get_fuel_limit(config, overflow_checks)
    IN  IF limits.panic THEN FailedSandbox("panic", OverflowPanic, FALSE)
        ELSE IF ~ctx.ok THEN FailedSandbox("error", ctx.err, FALSE)
        ELSE IF fuel_limit.panic THEN FailedSandbox("panic", OverflowPanic, TRUE)
        ELSE IF IsSome(fuel_limit.value) /\ ~engine_fuel
        THEN FailedSandbox("error", <<"fuel is not configured in this store">>,
                           TRUE)
        ELSE [status |-> "built", err |-> <<>>, store_made |-> TRUE,
              preopens |-> ctx.preopens,
              socket_addr_check |-> ctx.socket_addr_check,
              allow_ip_name_lookup |-> ctx.allow_ip_name_lookup,
              memory_size |-> limits.value,
              fuel |-> fuel_limit.value]

\* Whether building the sandbox got to build_socket_addr_check
\* (server.rs:206), which makes a NetworkChecker.
builds_checker(config, exists, overflow_checks) ==
    /\ ~build_store_limits(config, overflow_checks).panic
    /\ build_wasi_ctx(config, exists).ok
    /\ build_wasi_ctx(config, exists).socket_addr_check = "check"

\* The configuration document (config.rs WasiConfig) with its defaults.
DefaultConfig ==
    [image |-> <<>>, volume_mounts |-> <<>>,
     resources |-> [limits |-> NoResources, requests |-> NoResources],
     network |-> None]

\* -------------------------------------------------- HTTP bridge (server.rs)

\* server.rs:86,91 (the message's backquotes are left out of the string)
NeverSetMsg == "guest never invoked response-outparam::set method"

Response == [kind |-> "response", chain |-> <<>>]

\* An anyhow error: its messages, the outermost context first.
Error(chain) == [kind |-> "error", chain |-> chain]

\* anyhow::Error::context
context(e, msg) == Error(<<msg>> \o e.chain)

\* The errors a guest task can end with, and the table failures of the two
\* resource constructors.
TaskErrors == {"instantiate failed", "trap", "all fuel consumed", "panic"}

ResourceFailures == {"none", "incoming request", "response outparam"}

\* Fuel a guest burns between two suspension points.
FuelStep == 1000000

\* Dropping the store drops its resource table, and with it a sender that
\* was never used: the oneshot is then disconnected.
drop_sender(c) == IF c = "open" THEN "closed" ELSE c

\* The state every request of the process starts from.
NoRequests ==
    /\ sandbox = None
    /\ hostPc = [r \in Reqs |-> "idle"]
    /\ store = [r \in Reqs |-> "none"]
    /\ fuel = [r \in Reqs |-> None]
    /\ chan = [r \in Reqs |-> "none"]
    /\ taskPc = [r \in Reqs |-> "none"]
    /\ taskRes = [r \in Reqs |-> "none"]
    /\ join = [r \in Reqs |-> "none"]
    /\ outcomes = [r \in Reqs |-> <<>>]

\* The texts of the `cpu` limit the bridge is run with.
CpuTexts == { <<"1", "m">>, <<"2", "m">> }

\* The configurations the bridge is run with: a cpu limit without mounts,
\* and the lists of mounts without a cpu limit.
BridgeConfigs ==
    { [DefaultConfig EXCEPT !.resources.limits.cpu = Some(t)] : t \in CpuTexts }
    \cup { [DefaultConfig EXCEPT !.volume_mounts = mounts] :
             mounts \in MountLists }

\* server.rs:21-26: the server state is made of a configuration and of a
\* component pre-instantiated on an engine, which consumes fuel or does not.
BridgeInit ==
    /\ wasi_config \in BridgeConfigs
    /\ engineFuel \in BOOLEAN
    /\ existing \in SUBSET HostPaths(wasi_config.volume_mounts)
    /\ NoRequests

\* handle_request returns `out` to the HTTP server and is over.
Return(r, out) ==
    /\ outcomes' = [outcomes EXCEPT ![r] = Append(@, out)]
    /\ hostPc' = [hostPc EXCEPT ![r] = "done"]

\* server.rs:35-72: handle_request up to its first await. Building the
\* context may fail before any store exists; a failure of set_fuel or of a
\* resource constructor drops the store just created; otherwise the guest
\* task is spawned and owns the store, the request and the outparam.
HandleRequestStart(r) ==
    /\ hostPc[r] = "idle"
    /\ \A q \in Reqs : q < r => hostPc[q] \in {"done", "cancelled"}
    /\ \E overflow_checks \in BOOLEAN :
         LET sb == build_sandbox(wasi_config, existing, engineFuel,
                                 overflow_checks)
         IN  /\ sandbox' = Some(sb)
             /\ IF builds_checker(wasi_config, existing, overflow_checks)
                THEN /\ network' = Unwrap(wasi_config.network)
                     /\ checker' = Some(NetworkChecker_new(
                                           Unwrap(wasi_config.network), dns))
                     /\ builtDns' = Some(dns)
                     /\ lastCheck' = None
                ELSE UNCHANGED <<network, checker, builtDns, lastCheck>>
             /\ IF sb.status = "panic"
                THEN /\ hostPc' = [hostPc EXCEPT ![r] = "panicked"]
                     /\ store' = [store EXCEPT ![r] =
                            IF sb.store_made THEN "dropped" ELSE @]
                     /\ UNCHANGED <<fuel, chan, taskPc, join, outcomes>>
                ELSE IF sb.status = "error"
                THEN /\ Return(r, Error(sb.err))
                     /\ store' = [store EXCEPT ![r] =
                            IF sb.store_made THEN "dropped" ELSE @]
                     /\ UNCHANGED <<fuel, chan, taskPc, join>>
                ELSE \E failure \in ResourceFailures :
                       IF failure # "none"
                       THEN /\ Return(r, Error(<<failure>>))
                            /\ store' = [store EXCEPT ![r] = "dropped"]
                            /\ chan' = [chan EXCEPT ![r] = "closed"]
                            /\ UNCHANGED <<fuel, taskPc, join>>
                       ELSE /\ store' = [store EXCEPT ![r] = "alive"]
                            /\ fuel' = [fuel EXCEPT ![r] =
                                   IF IsSome(sb.fuel)
                                   THEN Some(big_to_int(Unwrap(sb.fuel)))
                                   ELSE IF engineFuel THEN Some(0) ELSE None]
                            /\ chan' = [chan EXCEPT ![r] = "open"]
                            /\ taskPc' = [taskPc EXCEPT ![r] = "instantiate"]
                            /\ join' = [join EXCEPT ![r] = "held"]
                            /\ hostPc' = [hostPc EXCEPT ![r] = "recv"]
                            /\ UNCHANGED outcomes
    /\ UNCHANGED <<mainVars, dns, wasi_config, engineFuel, existing, taskRes>>

\* A variant of HostRecv that joins the guest task before it returns the
\* delivered value.
HostRecvJoinsFirst(r) ==
    /\ hostPc[r] = "recv"
    /\ chan[r] \in {"ok", "err", "closed"}
    /\ IF chan[r] \in {"ok", "err"}
       THEN /\ taskPc[r] = "ended"
            /\ Return(r, IF chan[r] = "ok" THEN Response
                         ELSE Error(<<"error code">>))
            /\ join' = [join EXCEPT ![r] = "awaited"]
       ELSE /\ hostPc' = [hostPc EXCEPT ![r] = "join"]
            /\ join' = [join EXCEPT ![r] = "awaited"]
            /\ UNCHANGED outcomes
    /\ UNCHANGED <<mainVars, netVars, wasi_config, engineFuel, existing, sandbox, store, fuel, chan,
                   taskPc, taskRes>>

\* A variant of HostRecv that hands the delivered value to the HTTP server
\* and goes on to await the guest task, reporting how it ended.
HostRecvThenJoins(r) ==
    /\ hostPc[r] = "recv"
    /\ chan[r] \in {"ok", "err", "closed"}
    /\ IF chan[r] \in {"ok", "err"}
       THEN /\ outcomes' = [outcomes EXCEPT ![r] =
                   Append(@, IF chan[r] = "ok" THEN Response
                             ELSE Error(<<"error code">>))]
            /\ hostPc' = [hostPc EXCEPT ![r] = "join"]
            /\ join' = [join EXCEPT ![r] = "awaited"]
       ELSE /\ hostPc' = [hostPc EXCEPT ![r] = "join"]
            /\ join' = [join EXCEPT ![r] = "awaited"]
            /\ UNCHANGED outcomes
    /\ UNCHANGED <<mainVars, netVars, wasi_config, engineFuel, existing, sandbox, store, fuel, chan,
                   taskPc, taskRes>>

\* A variant of HostRecv for which a value delivered by a guest task that
\* has ended since is lost with the sender.
HostRecvLosesValue(r) ==
    /\ hostPc[r] = "recv"
    /\ chan[r] \in {"ok", "err", "closed"}
    /\ IF chan[r] \in {"ok", "err"} /\ taskPc[r] # "ended"
       THEN /\ Return(r, IF chan[r] = "ok" THEN Response
                         ELSE Error(<<"error code">>))
            /\ join' = [join EXCEPT ![r] = "detached"]
       ELSE /\ hostPc' = [hostPc EXCEPT ![r] = "join"]
            /\ join' = [join EXCEPT ![r] = "awaited"]
            /\ UNCHANGED outcomes
    /\ UNCHANGED <<mainVars, netVars, wasi_config, engineFuel, existing, sandbox, store, fuel, chan,
                   taskPc, taskRes>>

\* server.rs:74-83: `receiver.await`. A delivered value is returned at once
\* and the JoinHandle is dropped, which detaches the task; a disconnected
\* oneshot sends the host to `task.await`.
HostRecv(r) ==
    /\ hostPc[r] = "recv"
    /\ chan[r] \in {"ok", "err", "closed"}
    /\ IF chan[r] = "ok"
       THEN /\ Return(r, Response)
            /\ join' = [join EXCEPT ![r] = "detached"]
       ELSE IF chan[r] = "err"
       THEN /\ Return(r, Error(<<"error code">>))
            /\ join' = [join EXCEPT ![r] = "detached"]
       ELSE /\ hostPc' = [hostPc EXCEPT ![r] = "join"]
            /\ join' = [join EXCEPT ![r] = "awaited"]
            /\ UNCHANGED outcomes
    /\ UNCHANGED <<mainVars, netVars, wasi_config, engineFuel, existing, sandbox, store, fuel, chan,
                   taskPc, taskRes>>

\* A variant of HostJoin that surfaces the task's error as it is, without the
\* context message.
HostJoinNoContext(r) ==
    /\ hostPc[r] = "join"
    /\ taskPc[r] = "ended"
    /\ IF taskRes[r] = "ok"
       THEN Return(r, Error(<<NeverSetMsg>>))
       ELSE Return(r, Error(<<taskRes[r]>>))
    /\ UNCHANGED <<mainVars, netVars, wasi_config, engineFuel, existing, sandbox, store, fuel, chan,
                   taskPc, taskRes, join>>

\* server.rs:84-91: `task.await` resolves once the guest task has ended.
HostJoin(r) ==
    /\ hostPc[r] = "join"
    /\ taskPc[r] = "ended"
    /\ IF taskRes[r] = "ok"
       THEN Return(r, Error(<<NeverSetMsg>>))
       ELSE Return(r, context(Error(<<taskRes[r]>>), NeverSetMsg))
    /\ UNCHANGED <<mainVars, netVars, wasi_config, engineFuel, existing, sandbox, store, fuel, chan,
                   taskPc, taskRes, join>>

\* main.rs:54-67: the connection ends while handle_request is suspended; the
\* HTTP server drops the future, and with it the receiver and the JoinHandle.
Cancel(r) ==
    /\ hostPc[r] \in {"recv", "join"}
    /\ hostPc' = [hostPc EXCEPT ![r] = "cancelled"]
    /\ join' = [join EXCEPT ![r] = "detached"]
    /\ UNCHANGED <<mainVars, netVars, wasi_config, engineFuel, existing, sandbox, store, fuel, chan,
                   taskPc, taskRes, outcomes>>

\* A variant of TaskEnds in which the store outlives the task that owned it.
TaskEndsLeaksStore(r, res) ==
    /\ taskPc' = [taskPc EXCEPT ![r] = "ended"]
    /\ taskRes' = [taskRes EXCEPT ![r] = res]
    /\ chan' = [chan EXCEPT ![r] = drop_sender(@)]
    /\ UNCHANGED <<store, fuel>>

\* The guest task ends with `res`: its future is dropped, and with it the
\* store it owns.
TaskEnds(r, res) ==
    /\ taskPc' = [taskPc EXCEPT ![r] = "ended"]
    /\ taskRes' = [taskRes EXCEPT ![r] = res]
    /\ store' = [store EXCEPT ![r] = "dropped"]
    /\ fuel' = [fuel EXCEPT ![r] = None]
    /\ chan' = [chan EXCEPT ![r] = drop_sender(@)]

\* server.rs:61: `pre.instantiate_async(&mut store).await?`
TaskInstantiate(r) ==
    /\ taskPc[r] = "instantiate"
    /\ \E ok \in BOOLEAN :
         IF ok
         THEN /\ taskPc' = [taskPc EXCEPT ![r] = "running"]
              /\ UNCHANGED <<taskRes, store, fuel, chan>>
         ELSE TaskEnds(r, "instantiate failed")
    /\ UNCHANGED <<mainVars, netVars, wasi_config, engineFuel, existing, sandbox, hostPc, join, outcomes>>

\* A variant of GuestWork in which a guest out of fuel goes on executing.
GuestWorkNoTrap(r) ==
    /\ taskPc[r] = "running"
    /\ IF ~IsSome(fuel[r]) \/ Unwrap(fuel[r]) = 0
       THEN UNCHANGED <<fuel, taskPc, taskRes, store, chan>>
       ELSE /\ fuel' = [fuel EXCEPT ![r] =
                           Some(IF Unwrap(@) > FuelStep
                                THEN Unwrap(@) - FuelStep ELSE 0)]
            /\ UNCHANGED <<taskPc, taskRes, store, chan>>
    /\ UNCHANGED <<mainVars, netVars, wasi_config, engineFuel, existing, sandbox, hostPc, join, outcomes>>

\* server.rs:63-66: the guest executes; with fuel in the store each stretch
\* of execution burns some, and the guest traps once none is left.
GuestWork(r) ==
    /\ taskPc[r] = "running"
    /\ IF ~IsSome(fuel[r])
       THEN UNCHANGED <<fuel, taskPc, taskRes, store, chan>>
       ELSE IF Unwrap(fuel[r]) = 0
       THEN TaskEnds(r, "all fuel consumed")
       ELSE /\ fuel' = [fuel EXCEPT ![r] =
                           Some(IF Unwrap(@) > FuelStep
                                THEN Unwrap(@) - FuelStep ELSE 0)]
            /\ UNCHANGED <<taskPc, taskRes, store, chan>>
    /\ UNCHANGED <<mainVars, netVars, wasi_config, engineFuel, existing, sandbox, hostPc, join, outcomes>>

\* The guest calls `response-outparam::set`, which consumes the outparam and
\* sends on the oneshot.
GuestSet(r) ==
    /\ taskPc[r] = "running"
    /\ chan[r] = "open"
    /\ \E v \in {"ok", "err"} : chan' = [chan EXCEPT ![r] = v]
    /\ UNCHANGED <<mainVars, netVars, wasi_config, engineFuel, existing, sandbox, hostPc, store, fuel,
                   taskPc, taskRes, join, outcomes>>

\* The guest drops the outparam without calling set.
GuestDropOutparam(r) ==
    /\ taskPc[r] = "running"
    /\ chan[r] = "open"
    /\ chan' = [chan EXCEPT ![r] = "closed"]
    /\ UNCHANGED <<mainVars, netVars, wasi_config, engineFuel, existing, sandbox, hostPc, store, fuel,
                   taskPc, taskRes, join, outcomes>>

\* server.rs:63-71: call_handle returns: Ok, or the guest's trap (which is
\* also how a use of the consumed outparam ends).
GuestReturn(r) ==
    /\ taskPc[r] = "running"
    /\ \E res \in {"ok", "trap"} : TaskEnds(r, res)
    /\ UNCHANGED <<mainVars, netVars, wasi_config, engineFuel, existing, sandbox, hostPc, join, outcomes>>

\* The guest task panics: its JoinHandle resolves to a JoinError.
TaskPanic(r) ==
    /\ taskPc[r] \in {"instantiate", "running"}
    /\ TaskEnds(r, "panic")
    /\ UNCHANGED <<mainVars, netVars, wasi_config, engineFuel, existing, sandbox, hostPc, join, outcomes>>

\* The file system changes under the running process. The process looks at
\* it only when a request starts (server.rs:182), so the changes are followed
\* between the requests of the connection, while another request is to come.
FsChange ==
    /\ \E r \in Reqs : hostPc[r] = "idle"
    /\ \A r \in Reqs : hostPc[r] \notin {"recv", "join"}
    /\ \E p \in HostPaths(wasi_config.volume_mounts) :
         existing' = IF p \in existing THEN existing \ {p}
                     ELSE existing \cup {p}
    /\ UNCHANGED <<mainVars, netVars, wasi_config, engineFuel, sandbox, hostPc, store,
                   fuel, chan, taskPc, taskRes, join, outcomes>>

Conns == 1..MaxConn

\* main has not started and no connection exists.
MainIdle ==
    /\ environ = [IMAGE |-> None]
    /\ mainPc = "start"
    /\ imgname = None
    /\ conns = [c \in Conns |-> "none"]

BridgeIdle ==
    /\ wasi_config = DefaultConfig
    /\ engineFuel = FALSE
    /\ existing = {}
    /\ NoRequests

Init == BridgeInit /\ NetIdle /\ MainIdle

Next ==
    \/ \E r \in Reqs : HandleRequestStart(r)
    \/ \E r \in Reqs : HostRecv(r)
    \/ \E r \in Reqs : HostJoin(r)
    \/ \E r \in Reqs : Cancel(r)
    \/ \E r \in Reqs : TaskInstantiate(r)
    \/ \E r \in Reqs : GuestWork(r)
    \/ \E r \in Reqs : GuestSet(r)
    \/ \E r \in Reqs : GuestDropOutparam(r)
    \/ \E r \in Reqs : GuestReturn(r)
    \/ \E r \in Reqs : TaskPanic(r)
    \/ FsChange

Spec == Init /\ [][Next]_vars

\* The bridge under the scheduling of the task runtime: a spawned guest task
\* is polled until it ends (server.rs:60-72), so it goes on instantiating
\* and executing, and a host future that can proceed does (server.rs:74-91).
\* What the guest chooses to do, and the client, are under no obligation.
Scheduling ==
    \A r \in Reqs :
        /\ WF_vars(TaskInstantiate(r))
        /\ WF_vars(GuestWork(r))
        /\ WF_vars(HostRecv(r))
        /\ WF_vars(HostJoin(r))

\* The configuration whose requests are followed to their end: a cpu limit
\* of two millicores and no mounts.
FairConfigs ==
    { [DefaultConfig EXCEPT !.resources.limits.cpu = Some(<<"2", "m">>)] }

InitFair ==
    /\ wasi_config \in FairConfigs
    /\ engineFuel \in BOOLEAN
    /\ existing = {}
    /\ NoRequests
    /\ NetIdle
    /\ MainIdle

NextFair ==
    \/ \E r \in Reqs : HandleRequestStart(r)
    \/ \E r \in Reqs : HostRecv(r)
    \/ \E r \in Reqs : HostJoin(r)
    \/ \E r \in Reqs : Cancel(r)
    \/ \E r \in Reqs : TaskInstantiate(r)
    \/ \E r \in Reqs : GuestWork(r)
    \/ \E r \in Reqs : GuestSet(r)
    \/ \E r \in Reqs : GuestDropOutparam(r)
    \/ \E r \in Reqs : GuestReturn(r)
    \/ \E r \in Reqs : TaskPanic(r)

SpecFair == InitFair /\ [][NextFair]_vars /\ Scheduling

\* The network policy engine on its own.
InitNet == BridgeIdle /\ NetInit /\ MainIdle

NextNet ==
    \/ checker = None /\ BuildSocketAddrCheck
    \/ SocketAddrCheck

SpecNet == InitNet /\ [][NextNet]_vars

\* ------------------------------------------- the sandbox of a request

\* The texts of the `cpu` and `memory` quantities sandboxes are built with.
CpuQuantities ==
    { <<"1", "0", "0", "m">>,
      <<"1">>,
      <<"0", ".", "5">>,
      <<" ", "2", "5", "0", "m", " ">>,
      <<"1", "8", "4", "4", "6", "7", "4", "4", "0", "7", "3", "7", "0", "9", "m">>,
      <<"1", "8", "4", "4", "6", "7", "4", "4", "0", "7", "3", "7", "1", "0", "m">>,
      <<"-", "1">>,
      <<"n", "a", "n">>,
      <<"a", "b", "c">>,
      <<"1", ".", "5", "m">> }

MemQuantities ==
    { <<"1">>,
      <<"1", "k">>,
      <<"1", "M">>,
      <<"1", "G">>,
      <<"1", "T">>,
      <<"1", "P">>,
      <<"1", "E">>,
      <<"1", "K", "i">>,
      <<"1", "M", "i">>,
      <<"1", "G", "i">>,
      <<"1", "T", "i">>,
      <<"1", "P", "i">>,
      <<"1", "E", "i">>,
      <<"1", "6">>,
      <<"1", "6", "k">>,
      <<"1", "6", "M">>,
      <<"1", "6", "G">>,
      <<"1", "6", "T">>,
      <<"1", "6", "P">>,
      <<"1", "6", "E">>,
      <<"1", "6", "K", "i">>,
      <<"1", "6", "M", "i">>,
      <<"1", "6", "G", "i">>,
      <<"1", "6", "T", "i">>,
      <<"1", "6", "P", "i">>,
      <<"1", "6", "E", "i">>,
      <<"1", "9">>,
      <<"1", "9", "k">>,
      <<"1", "9", "M">>,
      <<"1", "9", "G">>,
      <<"1", "9", "T">>,
      <<"1", "9", "P">>,
      <<"1", "9", "E">>,
      <<"1", "9", "K", "i">>,
      <<"1", "9", "M", "i">>,
      <<"1", "9", "G", "i">>,
      <<"1", "9", "T", "i">>,
      <<"1", "9", "P", "i">>,
      <<"1", "9", "E", "i">>,
      <<"1", "8", "4", "4", "6", "7", "4", "4", "0", "7", "3", "7", "0", "9", "5", "5", "1", "6", "1", "5">>,
      <<"1", "8", "4", "4", "6", "7", "4", "4", "0", "7", "3", "7", "0", "9", "5", "5", "1", "6", "1", "6">>,
      <<" ", "2", "G", "i", " ">>,
      <<"a", "b", "c">>,
      <<"1", ".", "5", "G", "i">>,
      <<"1", "0", "0", "m">> }

LimitMaps ==
    [memory : {None, Some(<<"1", "K", "i">>)}, cpu : {None, Some(<<"1", "0", "0", "m">>)}]

RequestMaps ==
    [memory : {None, Some(<<"2", "K", "i">>)}, cpu : {None, Some(<<"1">>)}]

\* The configurations sandboxes are built from: each part of the document
\* is varied with the other parts at their defaults.
SandboxConfigs ==
    { [DefaultConfig EXCEPT !.volume_mounts = mounts] : mounts \in MountLists }
    \cup { [DefaultConfig EXCEPT !.network = Some(net)] :
             net \in NetworkSpecs(1) }
    \cup { [DefaultConfig EXCEPT !.network = Some([net EXCEPT !.inherit = TRUE])] :
             net \in NetworkSpecs(1) }
    \cup { [DefaultConfig EXCEPT !.resources.limits.cpu = Some(t)] :
             t \in CpuQuantities }
    \cup { [DefaultConfig EXCEPT !.resources.limits.memory = Some(t)] :
             t \in MemQuantities }
    \cup { [DefaultConfig EXCEPT !.resources = [limits |-> l, requests |-> q]] :
             l \in LimitMaps, q \in RequestMaps }

InitSandbox ==
    /\ wasi_config \in SandboxConfigs
    /\ engineFuel \in BOOLEAN
    /\ existing \in SUBSET HostPaths(wasi_config.volume_mounts)
    /\ NoRequests
    /\ network = EmptyNetwork
    /\ dns \in Resolvers
    /\ checker = None
    /\ builtDns = None
    /\ lastCheck = None
    /\ MainIdle

\* server.rs:35-49: a request arrives and handle_request builds its sandbox.
\* build_wasi_ctx calls build_socket_addr_check (server.rs:206) when the
\* pattern lists are to be used, which resolves the host names now.
BuildSandbox ==
    /\ \E overflow_checks \in BOOLEAN :
         /\ sandbox' = Some(build_sandbox(wasi_config, existing, engineFuel,
                                          overflow_checks))
         /\ IF builds_checker(wasi_config, existing, overflow_checks)
            THEN /\ network' = Unwrap(wasi_config.network)
                 /\ checker' = Some(NetworkChecker_new(
                                       Unwrap(wasi_config.network), dns))
                 /\ builtDns' = Some(dns)
            ELSE UNCHANGED <<network, checker, builtDns>>
    /\ lastCheck' = None
    /\ UNCHANGED <<mainVars, wasi_config, engineFuel, existing, dns, hostPc, store, fuel,
                   chan, taskPc, taskRes, join, outcomes>>

\* A socket operation of the guest in the sandbox built last: wasmtime-wasi
\* asks the socket-address check of the context. One operation per sandbox
\* is followed (the check changes nothing).
SocketOp ==
    /\ IsSome(sandbox)
    /\ Unwrap(sandbox).status = "built"
    /\ lastCheck = None
    /\ \E addr \in SocketAddrs, use \in Uses :
         lastCheck' =
            Some([addr |-> addr, use |-> use,
                  result |->
                     CASE Unwrap(sandbox).socket_addr_check = "allow" -> TRUE
                       [] Unwrap(sandbox).socket_addr_check = "deny" -> FALSE
                       [] Unwrap(sandbox).socket_addr_check = "check" ->
                             check(Unwrap(checker), addr, use)])
    /\ UNCHANGED <<mainVars, bridgeVars, network, dns, checker, builtDns>>

\* The answers of the resolver change while the process serves.
DnsChange ==
    /\ \E answers \in Resolvers : dns' = answers /\ answers # dns
    /\ UNCHANGED <<mainVars, bridgeVars, network, checker, builtDns, lastCheck>>

NextSandbox ==
    \/ BuildSandbox
    \/ SocketOp
    \/ DnsChange
    \/ FsChange

SpecSandbox == InitSandbox /\ [][NextSandbox]_vars

\* ------------------------------------------ runner entrypoint (main.rs)

\* The image references of the configuration and of the environment.
ImageA == <<"r", "e", "g", "/", "a">>
ImageB == <<"r", "e", "g", "/", "b">>

\* main.rs:20-21: Config::new() with async support switched on and nothing
\* else: fuel consumption keeps its default, off.
consume_fuel == FALSE

\* The process starts with a configuration document and an environment.
InitMain ==
    /\ wasi_config \in { [DefaultConfig EXCEPT !.image = i,
                                               !.resources.limits.cpu = cpu] :
                           i \in {<<>>, ImageA},
                           cpu \in {None, Some(<<"1", "0", "0", "m">>)} }
    /\ engineFuel = FALSE
    /\ existing = {}
    /\ NoRequests
    /\ NetIdle
    /\ environ \in [IMAGE : {None, Some(ImageA), Some(ImageB)}]
    /\ mainPc = "start"
    /\ imgname = None
    /\ conns = [c \in Conns |-> "none"]

\* main.rs:20-24: the engine is made and the image name is read from the
\* IMAGE variable of the environment; `?` ends main when it is not set.
MainReadImage ==
    /\ mainPc = "start"
    /\ engineFuel' = consume_fuel
    /\ IF IsSome(environ.IMAGE)
       THEN /\ imgname' = environ.IMAGE
            /\ mainPc' = "fetch"
       ELSE /\ mainPc' = "exited"
            /\ UNCHANGED imgname
    /\ UNCHANGED <<wasi_config, existing, sandbox, hostPc, store, fuel, chan,
                   taskPc, taskRes, join, outcomes>>
    /\ UNCHANGED <<netVars, environ, conns>>

\* main.rs:27: fetch_oci_image(imgname), `?` on its error
MainFetch ==
    /\ mainPc = "fetch"
    /\ \E ok \in BOOLEAN : mainPc' = IF ok THEN "prepare" ELSE "exited"
    /\ UNCHANGED <<bridgeVars, netVars, environ, imgname, conns>>

\* main.rs:30-38: compile, link, pre-instantiate, `?` on each error
MainPrepare ==
    /\ mainPc = "prepare"
    /\ \E ok \in BOOLEAN : mainPc' = IF ok THEN "bind" ELSE "exited"
    /\ UNCHANGED <<bridgeVars, netVars, environ, imgname, conns>>

\* main.rs:41-45: TcpListener::bind, `?` on its error
MainBind ==
    /\ mainPc = "bind"
    /\ \E ok \in BOOLEAN : mainPc' = IF ok THEN "accept" ELSE "exited"
    /\ UNCHANGED <<bridgeVars, netVars, environ, imgname, conns>>

\* main.rs:47-69, one round of the loop: `listener.accept().await?` returns
\* a connection, served in a task of its own, or an error, which `?` returns
\* from main.
MainAccept ==
    /\ mainPc = "accept"
    /\ \E ok \in BOOLEAN :
         IF ok
         THEN /\ \E c \in Conns :
                   /\ conns[c] = "none"
                   /\ \A b \in Conns : b < c => conns[b] # "none"
                   /\ conns' = [conns EXCEPT ![c] = "serving"]
              /\ UNCHANGED mainPc
         ELSE /\ mainPc' = "exited"
              /\ UNCHANGED conns
    /\ UNCHANGED <<bridgeVars, netVars, environ, imgname>>

\* main.rs:55-62: a request of the connection is handled; an Err of
\* handle_request makes serve_connection end with that error.
ConnRequest(c) ==
    /\ mainPc = "accept"
    /\ conns[c] = "serving"
    /\ \E failed \in BOOLEAN :
         conns' = [conns EXCEPT ![c] = IF failed THEN "failed" ELSE "serving"]
    /\ UNCHANGED <<bridgeVars, netVars, environ, mainPc, imgname>>

\* main.rs:55-67: serve_connection ends: the client is gone, or the
\* connection failed, which is logged.
ConnEnds(c) ==
    /\ mainPc = "accept"
    /\ conns[c] = "serving"
    /\ \E failed \in BOOLEAN :
         conns' = [conns EXCEPT ![c] = IF failed THEN "failed" ELSE "closed"]
    /\ UNCHANGED <<bridgeVars, netVars, environ, mainPc, imgname>>

NextMain ==
    \/ MainReadImage
    \/ MainFetch
    \/ MainPrepare
    \/ MainBind
    \/ MainAccept
    \/ \E c \in Conns : ConnRequest(c)
    \/ \E c \in Conns : ConnEnds(c)

SpecMain == InitMain /\ [][NextMain]_vars

\* ------------------------------------------------- claims on the bridge

NeverSet(r) == chan[r] \notin {"ok", "err"}

\* C1: when the guest has delivered Ok(response), handle_request returns the
\* response without joining the guest task: the JoinHandle is dropped, never
\* awaited, and with a response delivered the host's receive is enabled
\* whatever the guest task is doing.
C1_ResponseWithoutJoin ==
    \A r \in Reqs :
        /\ (hostPc[r] = "done" /\ outcomes[r] = <<Response>>)
              => join[r] = "detached"
        /\ (hostPc[r] = "recv" /\ chan[r] = "ok") => ENABLED HostRecv(r)

\* The response has been returned while the guest task still runs and still
\* owns the store.
C1_Witness ==
    \E r \in Reqs :
        /\ hostPc[r] = "done" /\ outcomes[r] = <<Response>>
        /\ taskPc[r] = "running" /\ store[r] = "alive"

\* C2: once the guest task has ended without a set and handle_request has
\* returned, what it returned is one error and no response: the message alone
\* when the task ended Ok, the task's error under the message otherwise.
C2_NeverSetError ==
    \A r \in Reqs :
        (hostPc[r] = "done" /\ taskPc[r] = "ended" /\ NeverSet(r))
           => outcomes[r] =
                 << IF taskRes[r] = "ok" THEN Error(<<NeverSetMsg>>)
                    ELSE Error(<<NeverSetMsg, taskRes[r]>>) >>

\* One request whose task ended Ok without a set and one whose task ended
\* with an error of its own, both answered.
C2_Witness ==
    \E r, q \in Reqs :
        /\ hostPc[r] = "done" /\ taskPc[r] = "ended" /\ NeverSet(r)
        /\ taskRes[r] = "ok"
        /\ hostPc[q] = "done" /\ taskPc[q] = "ended" /\ NeverSet(q)
        /\ taskRes[q] \in TaskErrors

\* C3: handle_request yields at most one outcome per request.
C3_AtMostOneOutcome == \A r \in Reqs : Len(outcomes[r]) <= 1

\* A guest that trapped after its set: the response is the only outcome.
C3_Witness ==
    \E r \in Reqs :
        /\ outcomes[r] = <<Response>>
        /\ taskPc[r] = "ended" /\ taskRes[r] = "trap"

\* C4 as stated: once handle_request has returned, the request's store is no
\* longer alive.
C4_NoStoreAfterReturn ==
    \A r \in Reqs : hostPc[r] = "done" => store[r] # "alive"

\* C4 as amended: a store is alive exactly while its guest task is
\* unfinished, so it is dropped when the task finishes and not earlier; a
\* request that failed after creating its store and before spawning the task
\* has dropped it by the time it returns.
C4_StoreDroppedWithTask ==
    \A r \in Reqs :
        /\ store[r] = "alive" <=> taskPc[r] \in {"instantiate", "running"}
        /\ (hostPc[r] = "done" /\ taskPc[r] = "none" /\ chan[r] # "none")
              => store[r] = "dropped"
        /\ (hostPc[r] \in {"done", "cancelled"} /\ taskPc[r] = "ended")
              => store[r] = "dropped"

\* A request that failed on a resource constructor, its store dropped, and a
\* request whose store was dropped when its guest task finished.
C4_Witness ==
    \E r, q \in Reqs :
        /\ hostPc[r] = "done" /\ taskPc[r] = "none" /\ store[r] = "dropped"
        /\ hostPc[q] = "done" /\ taskPc[q] = "ended" /\ store[q] = "dropped"

\* ----------------------------------------- claims on the network policy

\* The reading of a pattern text by the grammar of address patterns: the
\* host is `*`, an IP literal or a DNS name, the port `*` (None) or a number.
DLo4At80 == <<"1", "2", "7", ".", "0", ".", "0", ".", "1", ":", "8", "0">>

PatternForm(p) ==
    CASE p = PAnyAny -> [host |-> "*", ip |-> None, port |-> None]
      [] p = PAny80 -> [host |-> "*", ip |-> None, port |-> Some(80)]
      [] p = PPub4Any -> [host |-> "ip", ip |-> Some(Pub4), port |-> None]
      [] p = PLo6At80 -> [host |-> "ip", ip |-> Some(Lo6), port |-> Some(80)]
      [] p = DLo4At80 -> [host |-> "ip", ip |-> Some(Lo4), port |-> Some(80)]
      [] p = PHostAt80 -> [host |-> "name", ip |-> None, port |-> Some(80)]
      [] p = PHostAny -> [host |-> "name", ip |-> None, port |-> None]
      [] OTHER -> [host |-> "malformed", ip |-> None, port |-> None]

\* The table of match rules: a DNS name and a malformed text match nothing.
TableMatches(form, addr) ==
    /\ form.host \in {"*", "ip"}
    /\ form.host = "ip" => addr.ip = Unwrap(form.ip)
    /\ IsSome(form.port) => addr.port = Unwrap(form.port)

Checked == IsSome(lastCheck)
Query == Unwrap(lastCheck)
OwnList == list_for(network, Query.use)

\* The IP-form patterns the checker holds for the entries of a list.
DerivedOf(list) ==
    UNION {SeqRange(Unwrap(checker).resolved_patterns[p]) :
              p \in SeqRange(list) \cap DOMAIN Unwrap(checker).resolved_patterns}

OwnMatch ==
    \E p \in SeqRange(OwnList) \cup DerivedOf(OwnList) :
        TableMatches(PatternForm(p), Query.addr)

\* The checker with every list but that of one use emptied.
only_use(c, use) ==
    [tcp_bind |-> IF use = "TcpBind" THEN c.tcp_bind ELSE <<>>,
     tcp_connect |-> IF use = "TcpConnect" THEN c.tcp_connect ELSE <<>>,
     udp_bind |-> IF use = "UdpBind" THEN c.udp_bind ELSE <<>>,
     udp_connect |-> IF use = "UdpConnect" THEN c.udp_connect ELSE <<>>,
     udp_outgoing |-> IF use = "UdpOutgoingDatagram" THEN c.udp_outgoing
                      ELSE <<>>,
     resolved_patterns |-> c.resolved_patterns]

\* C5: use isolation. The decision for a use is the decision of a checker
\* that holds that use's list alone, and an address that no pattern of the
\* use's own list (or of its resolutions) matches is denied, whatever the
\* lists of the other uses allow.
C5_UseIsolation ==
    Checked =>
        /\ Query.result
              = check(only_use(Unwrap(checker), Query.use), Query.addr, Query.use)
        /\ ~OwnMatch => ~Query.result

\* An address denied for one use while the list of another use matches it.
C5_Witness ==
    /\ Checked /\ ~Query.result
    /\ \E other \in Uses \ {Query.use} :
          \E p \in SeqRange(list_for(network, other)) :
              TableMatches(PatternForm(p), Query.addr)

\* C6: wildcard dominance. With `*:*` anywhere in the list of the use, every
\* address is allowed.
C6_WildcardDominance ==
    (Checked /\ PAnyAny \in SeqRange(OwnList)) => Query.result

\* `*:*` stands second, behind a pattern without a colon.
C6_Witness ==
    /\ Checked /\ OwnList = <<PNoColon, PAnyAny>>
    /\ Query.result

\* C7: check is true exactly when a pattern of the use's list, or an IP-form
\* pattern derived from one of its entries, matches by the table; with no
\* matching pattern, and so with an empty list, it is false.
C7_MatchByTable == Checked => (Query.result <=> OwnMatch)

\* A wildcard host with a port: allowed at that port.
C7_Witness ==
    /\ Checked /\ OwnList = <<PAny80>>
    /\ Query.addr = [ip |-> Pub4, port |-> 80] /\ Query.result

\* C8: a list holding only `[::1]:80` allows the IPv6 loopback at port 80
\* and nothing else: no IPv4 address, and no other port.
C8_BracketedIpv6 ==
    (Checked /\ SeqRange(OwnList) = {PLo6At80})
       => (Query.result <=> Query.addr = [ip |-> Lo6, port |-> 80])

C8_Witness ==
    /\ Checked /\ OwnList = <<PLo6At80>>
    /\ Query.addr = [ip |-> Lo6, port |-> 80] /\ Query.result

\* What a name resolved to when the checker was built.
ResolvedAtBuild == SeqRange(Unwrap(builtDns)[HostH])

\* A pattern allows an address by the rules of the policy: by the table, or,
\* for a DNS name, through the addresses the name resolved to.
Allows(p, addr) ==
    \/ TableMatches(PatternForm(p), addr)
    \/ /\ PatternForm(p).host = "name"
       /\ addr.ip \in ResolvedAtBuild
       /\ IsSome(PatternForm(p).port) => addr.port = Unwrap(PatternForm(p).port)

\* C9: with `h:80` in the list of the use and h resolved to R when the
\* checker was built, every address of R is allowed at port 80; an address of
\* R at another port, or an address outside R at port 80, is allowed only if
\* another pattern of the list allows it.
C9_ResolvedName ==
    (Checked /\ PHostAt80 \in SeqRange(OwnList) /\ ResolvedAtBuild # {})
       => /\ (Query.addr.ip \in ResolvedAtBuild /\ Query.addr.port = 80)
                => Query.result
          /\ (Query.addr.ip \notin ResolvedAtBuild \/ Query.addr.port # 80)
                => (Query.result
                      => \E p \in SeqRange(OwnList) \ {PHostAt80} :
                            Allows(p, Query.addr))

\* The name resolved to an IPv4 and an IPv6 address; the IPv6 one is allowed
\* at the port of the pattern.
C9_Witness ==
    /\ Checked /\ OwnList = <<PHostAt80>>
    /\ Unwrap(builtDns)[HostH] = <<Lo4, Lo6>>
    /\ Query.addr = [ip |-> Lo6, port |-> 80] /\ Query.result

\* C10: a DNS-name pattern whose resolution failed stays in its list, has no
\* resolutions, and decides nothing: the checker is built, and the decision is
\* that of the other patterns of the list.
C10_FailedResolution ==
    (Checked /\ ResolvedAtBuild = {}
             /\ SeqRange(OwnList) \cap {PHostAt80, PHostAny} # {})
       => /\ list_for(Unwrap(checker), Query.use) = OwnList
          /\ DOMAIN Unwrap(checker).resolved_patterns
                \cap {PHostAt80, PHostAny} = {}
          /\ Query.result
                <=> \E p \in SeqRange(OwnList) \ {PHostAt80, PHostAny} :
                       TableMatches(PatternForm(p), Query.addr)

\* The unresolved name stands first; the pattern behind it still allows.
C10_Witness ==
    /\ Checked /\ OwnList = <<PHostAt80, PPub4Any>>
    /\ Unwrap(builtDns)[HostH] = <<>>
    /\ Query.addr = [ip |-> Pub4, port |-> 81] /\ Query.result

\* -------------------------------------------- claims on the sandbox

\* C11: host names are resolved once, at process start: building the
\* sandbox of a request resolves nothing, so a policy, once resolved, stays
\* the policy of every later request although the DNS answers change.
C11_ResolvedOnce == [][IsSome(checker) => checker' = checker]_vars

Built == IsSome(sandbox) /\ Unwrap(sandbox).status = "built"

\* C12: a socket operation is permitted exactly when `network` is present
\* with inherit = true, or present with inherit = false and check(addr, use)
\* true; with `network` absent, or with inherit = false and five empty lists,
\* it is denied.
C12_SocketPermission ==
    (Built /\ Checked) =>
        LET net == wasi_config.network
        IN  /\ ~IsSome(net) => ~Query.result
            /\ (IsSome(net) /\ Unwrap(net).inherit) => Query.result
            /\ (IsSome(net) /\ ~Unwrap(net).inherit) =>
                  /\ Query.result <=>
                        /\ IsSome(checker)
                        /\ check(Unwrap(checker), Query.addr, Query.use)
                  /\ (\A use \in Uses : list_for(Unwrap(net), use) = <<>>)
                        => ~Query.result

\* With inherit = true an operation is permitted that the list of its use
\* does not allow.
C12_Witness ==
    /\ Built /\ Checked /\ Query.result
    /\ IsSome(wasi_config.network)
    /\ Unwrap(wasi_config.network).inherit
    /\ list_for(Unwrap(wasi_config.network), Query.use) = <<>>
    /\ Unwrap(wasi_config.network) # [EmptyNetwork EXCEPT !.inherit = TRUE]

\* The mounts whose host path does not exist now.
MissingMounts ==
    { i \in 1..Len(wasi_config.volume_mounts) :
         host_path(wasi_config.volume_mounts[i]) \notin existing }

\* An error that names a mount and its host path.
NamesMount(out, mount) ==
    /\ out.kind = "error"
    /\ mount.name \in SeqRange(out.chain)
    /\ display(host_path(mount)) \in SeqRange(out.chain)

C14_ReadOnlyMounts ==
    Built =>
        LET mounts == wasi_config.volume_mounts
            dirs == Unwrap(sandbox).preopens
        IN  /\ Len(dirs) = Len(mounts)
            /\ \A i \in 1..Len(mounts) :
                  /\ dirs[i].host_path = host_path(mounts[i])
                  /\ dirs[i].guest_path = mounts[i].mount_path
                  /\ mounts[i].read_only =>
                        /\ dirs[i].dir_perms = {"READ"}
                        /\ dirs[i].file_perms = {"READ"}
                  /\ ~mounts[i].read_only =>
                        /\ dirs[i].dir_perms = {"READ", "MUTATE"}
                        /\ dirs[i].file_perms = {"READ", "WRITE"}

C14_Witness ==
    /\ Built
    /\ wasi_config.volume_mounts = <<LogsMount, DataMount>>
    /\ Len(Unwrap(sandbox).preopens) = 2
    /\ "WRITE" \notin Unwrap(sandbox).preopens[2].file_perms

\* The quantity texts the sandbox was built from: the value under `limits`
\* if there is one, else the value under `requests`.
CpuText ==
    IF IsSome(wasi_config.resources.limits.cpu)
    THEN wasi_config.resources.limits.cpu
    ELSE wasi_config.resources.requests.cpu

MemoryText ==
    IF IsSome(wasi_config.resources.limits.memory)
    THEN wasi_config.resources.limits.memory
    ELSE wasi_config.resources.requests.memory

\* The CPU grammar: decimal digits suffixed `m`, or a decimal number of
\* cores (digits, optionally a point and digits).
IsMillicores(t) ==
    /\ Len(t) >= 2 /\ t[Len(t)] = "m"
    /\ digits_only(SubSeq(t, 1, Len(t) - 1))

IsCores(t) ==
    \/ digits_only(t)
    \/ \E i \in 2..(Len(t) - 1) :
          /\ t[i] = "."
          /\ digits_only(SubSeq(t, 1, i - 1))
          /\ digits_only(SubSeq(t, i + 1, Len(t)))

InCpuGrammar(t) == IsMillicores(trim(t)) \/ IsCores(trim(t))

\* The millicores a text of the grammar stands for, as an unbounded number.
GrammarMillicores(t) ==
    LET s == trim(t)
    IN  IF IsMillicores(s) THEN big_from_digits(SubSeq(s, 1, Len(s) - 1))
        ELSE IF digits_only(s) THEN big_mul(big_from_digits(s), 1000)
        ELSE LET i == CHOOSE j \in 1..Len(s) : s[j] = "."
                 whole == SubSeq(s, 1, i - 1) \o SubSeq(s, i + 1, Len(s))
             IN  big_div_pow(big_mul(big_from_digits(whole), 1000), 10,
                             Len(s) - i)

GrammarFuel(t) == big_mul(GrammarMillicores(t), 1000000)

\* C15: for a CPU quantity of the grammar the fuel seeded into the store, on
\* an engine that consumes fuel, is millicores x 1,000,000 exactly; a
\* product that 64 bits cannot hold is never seeded as a wrapped value.
C15_ExactFuel ==
    (IsSome(sandbox) /\ engineFuel /\ IsSome(CpuText)
                     /\ InCpuGrammar(Unwrap(CpuText))) =>
        IF Fits64(GrammarFuel(Unwrap(CpuText)))
        THEN /\ Built
             /\ Unwrap(sandbox).fuel = Some(GrammarFuel(Unwrap(CpuText)))
        ELSE ~(Built /\ IsSome(Unwrap(sandbox).fuel))

\* The memory grammar: decimal digits, then one of the decimal suffixes, one
\* of the binary suffixes, or nothing.
DecimalUnits == <<"k", "M", "G", "T", "P", "E">>

HasBinaryUnit(t, i) ==
    /\ Len(t) >= 3 /\ t[Len(t)] = "i"
    /\ t[Len(t) - 1] = (IF i = 1 THEN "K" ELSE DecimalUnits[i])
    /\ digits_only(SubSeq(t, 1, Len(t) - 2))

HasDecimalUnit(t, i) ==
    /\ Len(t) >= 2 /\ t[Len(t)] = DecimalUnits[i]
    /\ digits_only(SubSeq(t, 1, Len(t) - 1))

InMemoryGrammar(t) ==
    \/ digits_only(trim(t))
    \/ \E i \in 1..6 : HasBinaryUnit(trim(t), i) \/ HasDecimalUnit(trim(t), i)

\* The bytes a text of the grammar stands for, as an unbounded number.
GrammarBytes(t) ==
    LET s == trim(t)
    IN  IF digits_only(s) THEN big_from_digits(s)
        ELSE IF \E i \in 1..6 : HasBinaryUnit(s, i)
        THEN big_mul_pow(big_from_digits(SubSeq(s, 1, Len(s) - 2)), 1024,
                         CHOOSE i \in 1..6 : HasBinaryUnit(s, i))
        ELSE big_mul_pow(big_from_digits(SubSeq(s, 1, Len(s) - 1)), 1000,
                         CHOOSE i \in 1..6 : HasDecimalUnit(s, i))

\* C16: for a memory quantity of the grammar the ceiling of the store is
\* the product exactly; a product that 64 bits cannot hold never becomes a
\* wrapped ceiling.
C16_ExactMemory ==
    (IsSome(sandbox) /\ IsSome(MemoryText)
                     /\ InMemoryGrammar(Unwrap(MemoryText))) =>
        IF Fits64(GrammarBytes(Unwrap(MemoryText)))
        THEN /\ Built
             /\ Unwrap(sandbox).memory_size
                   = Some(GrammarBytes(Unwrap(MemoryText)))
        ELSE ~(Built /\ IsSome(Unwrap(sandbox).memory_size))

\* C17: a quantity text outside its grammar is an absent limit: the sandbox
\* is built, without a memory ceiling, respectively without fuel.
C17_UnparseableIsAbsent ==
    IsSome(sandbox) =>
        /\ (IsSome(CpuText) /\ ~InCpuGrammar(Unwrap(CpuText))) =>
              Built /\ Unwrap(sandbox).fuel = None
        /\ (IsSome(MemoryText) /\ ~InMemoryGrammar(Unwrap(MemoryText))) =>
              Built /\ Unwrap(sandbox).memory_size = None

\* C18: the limits of the sandbox come from the value under `limits` when
\* there is one, else from the value under `requests`, else there is none,
\* for memory and for cpu each on its own.
C18_LimitsFirst ==
    (Built /\ wasi_config.resources.limits \in LimitMaps
           /\ wasi_config.resources.requests \in RequestMaps) =>
        LET l == wasi_config.resources.limits
            q == wasi_config.resources.requests
        IN  /\ Unwrap(sandbox).memory_size =
                  IF IsSome(l.memory) THEN Some(big_from_digits(<<"1", "0", "2", "4">>))
                  ELSE IF IsSome(q.memory)
                  THEN Some(big_from_digits(<<"2", "0", "4", "8">>))
                  ELSE None
            /\ Unwrap(sandbox).fuel =
                  IF IsSome(l.cpu) THEN Some(big_from_digits(<<"1", "0", "0", "0", "0", "0", "0", "0", "0">>))
                  ELSE IF IsSome(q.cpu)
                  THEN Some(big_from_digits(<<"1", "0", "0", "0", "0", "0", "0", "0", "0", "0">>))
                  ELSE None

\* Memory is under both keys and cpu under `requests` alone: the ceiling is
\* that of `limits`, the fuel that of `requests`.
C18_Witness ==
    /\ Built
    /\ wasi_config.resources.limits = [memory |-> Some(<<"1", "K", "i">>), cpu |-> None]
    /\ wasi_config.resources.requests
          = [memory |-> Some(<<"2", "K", "i">>), cpu |-> Some(<<"1">>)]
    /\ IsSome(Unwrap(sandbox).fuel)

\* ----------------------------------------- claims on the entrypoint

\* C19: the image fetched is the configuration's `image` when that is not
\* empty, whatever IMAGE holds; IMAGE is used only when `image` is empty.
C19_ImageFromConfig ==
    /\ (mainPc = "exited" /\ imgname = None) => wasi_config.image = <<>>
    /\ IsSome(imgname) =>
          IF wasi_config.image # <<>> THEN imgname = Some(wasi_config.image)
          ELSE imgname = environ.IMAGE

\* C20: once the accept loop is entered nothing that happens while serving
\* ends the process: main stays in the loop.
C20_ServingNeverExits == [][mainPc = "accept" => mainPc' = "accept"]_vars

\* The engine of the process has been made (main.rs:22).
EngineMade == mainPc # "start"

\* C21: the engine consumes fuel exactly when the configuration carries a
\* CPU limit: with a limit it does, so that seeding the store of a request
\* cannot fail, and without one it does not.
C21_FuelIffCpuLimit ==
    EngineMade => (engineFuel <=> IsSome(get_cpu(wasi_config.resources)))

\* ------------------------------------------------- claims on fuel

\* The store of request r was seeded with the fuel of the CPU limit and its
\* guest task has not ended.
Seeded(r) ==
    /\ store[r] = "alive"
    /\ IsSome(fuel[r])
    /\ IsSome(get_fuel_limit(wasi_config, FALSE).value)

\* handle_request of r waits, for the rendezvous or for the guest task, in
\* a request whose store was seeded.
Waiting(r) ==
    /\ hostPc[r] \in {"recv", "join"}
    /\ engineFuel
    /\ IsSome(get_fuel_limit(wasi_config, FALSE).value)

\* The fuel the stores of the configuration are seeded with.
SeededFuel == big_to_int(Unwrap(get_fuel_limit(wasi_config, FALSE).value))

Delivered(r) ==
    IF chan[r] = "ok" THEN Response ELSE Error(<<"error code">>)

\* C23: when the guest has called set, the host that waits on the
\* rendezvous leaves it only by returning the delivered value (or by being
\* cancelled), whether the guest task is still running or has ended, Ok or
\* with a trap; the returned value is the only outcome, and the never-set
\* message is not reported.
C23_DeliveredValueReturned ==
    /\ [][\A r \in Reqs :
            (hostPc[r] = "recv" /\ ~NeverSet(r) /\ hostPc'[r] # "recv") =>
               \/ hostPc'[r] = "cancelled"
               \/ /\ hostPc'[r] = "done"
                  /\ outcomes'[r] = <<Delivered(r)>>]_vars
    /\ [](\A r \in Reqs :
            (hostPc[r] = "done" /\ ~NeverSet(r)) =>
               /\ outcomes[r] = <<Delivered(r)>>
               /\ NeverSetMsg \notin SeqRange(outcomes[r][1].chain))
    /\ [](\A r \in Reqs : hostPc[r] = "join" => NeverSet(r))

\* The host received after the guest task had ended: one request got the
\* delivered error although its guest trapped after set, the other the
\* response of a guest that had returned Ok.
C23_Witness ==
    \E r, q \in Reqs :
        /\ chan[r] = "err" /\ taskRes[r] = "trap"
        /\ outcomes[r] = <<Error(<<"error code">>)>>
        /\ chan[q] = "ok" /\ taskRes[q] = "ok"
        /\ outcomes[q] = <<Response>>

\* ------------------------------------- claims on names with any port

\* C24: with `h:*` in the list of the use and h resolving to R when the
\* checker is built, the pattern has derived patterns in the resolutions of
\* the checker, and every address of R is allowed at every port.
C24_NameAtAnyPort ==
    (Checked /\ PHostAny \in SeqRange(OwnList) /\ ResolvedAtBuild # {})
       => /\ PHostAny \in DOMAIN Unwrap(checker).resolved_patterns
          /\ Query.addr.ip \in ResolvedAtBuild => Query.result

====
